---- MODULE Spec2Model ----
(***************************************************************************)
(* Loan ledger engine of LoanDetailScreen (src/src/App.jsx, the last and   *)
(* most complete variant): the interest reconciler runInterestCalculation, *)
(* the handlers that write the transaction store, and the ledger fold.     *)
(*                                                                         *)
(* Numbers.  Money is held in micro-dollars (Dollar units per dollar), so  *)
(* that balance * (rate / 100 / 12) is exact for the amounts and rates the *)
(* model draws (multiples of 100 dollars, rates that are multiples of 12,  *)
(* at most four compounding months).  Floating-point noise is not modelled.*)
(*                                                                         *)
(* Time.  A calendar date is a day number (0 = 2024-01-01); an instant is  *)
(* a number of half days (Midnight(d) = 2d, Midday(d) = 2d + 1).  Every    *)
(* stored date is a local midnight (new Date(s + 'T00:00:00')); only       *)
(* "today" (new Date()) can fall inside a day.  All clients share one time *)
(* zone here.                                                              *)
(***************************************************************************)
EXTENDS Integers, Sequences, FiniteSets, TLC

\* ---------------------------------------------------------------- bounds
MaxMonths == 3      \* "today" lies in the months 1 .. MaxMonths after January 2024
MaxTx == 2          \* user transactions ever written to the store
MaxPasses == 2      \* calls of runInterestCalculation that get past the guard
MaxLedgerTx == 3    \* transactions one snapshot delivers to the screen
MaxSaves == 3       \* saves of the settings form with its date left as loaded

\* ------------------------------------------------------------- constants
\* A field that may be absent is a sequence of at most one value.
Null == << >>
Some(v) == << v >>
Get(o) == o[1]
Dollar == 1000 * 1000
Cent == Dollar \div 100
HalfCent == Dollar \div 200 \* the 0.005 of `interestAmount > 0.005`

\* The members of the loan, by userId.
Clients == {"u1", "u2"}

\* -------------------------------------------------------------- calendar
IsLeap(y) == (y % 4 = 0) /\ ((y % 100 # 0) \/ (y % 400 = 0))

\* Days in the month with index mi (months since January 2024), as JS Date
\* normalises new Date(year, month, day).
DaysInMonth(mi) ==
    LET y == 2024 + (mi \div 12)
        m == mi % 12
    IN  IF m = 1 THEN (IF IsLeap(y) THEN 29 ELSE 28)
        ELSE IF m \in {3, 5, 8, 10} THEN 30 ELSE 31

RECURSIVE FirstDay(_)
\* new Date(year, month, 1): the day number of the first day of month mi.
FirstDay(mi) == IF mi = 0 THEN 0 ELSE FirstDay(mi - 1) + DaysInMonth(mi - 1)

\* new Date(year, month + 1, 0): the last day of month mi.
LastDay(mi) == FirstDay(mi + 1) - 1

RECURSIVE MonthFrom(_, _)
MonthFrom(d, mi) == IF d < FirstDay(mi + 1) THEN mi ELSE MonthFrom(d, mi + 1)

\* getFullYear()/getMonth() of day d, as one month index.
MonthOf(d) == MonthFrom(d, 0)

\* getDate() of day d.
DayOfMonth(d) == d - FirstDay(MonthOf(d)) + 1

\* date.setMonth(date.getMonth() + 1): same day-of-month in the next month;
\* a day-of-month the next month does not have overflows into the month after.
SetMonthPlusOne(d) == FirstDay(MonthOf(d) + 1) + (DayOfMonth(d) - 1)

\* The day number of calendar day `dom` of month mi.
Day(mi, dom) == FirstDay(mi) + dom - 1

HoursPerDay == 24

Midnight(d) == 2 * d
Midday(d) == 2 * d + 1
DayOfInstant(t) == t \div 2

\* ------------------------------------------------------------ JS helpers
\* A JS number is [nan, v]: v is its value unless nan.
Num(v) == [nan |-> FALSE, v |-> v]
NaN == [nan |-> TRUE, v |-> 0]

\* parseFloat of a field: an absent field parses to NaN.
ParseFloat(o) == IF o = Null THEN NaN ELSE Num(Get(o))

\* a + b and a - b, NaN absorbing.
Plus(a, b) == IF a.nan \/ b.nan THEN NaN ELSE Num(a.v + b.v)
Minus(a, b) == IF a.nan \/ b.nan THEN NaN ELSE Num(a.v - b.v)

\* a > b; every comparison with NaN is false.
Greater(a, b) == ~a.nan /\ ~b.nan /\ a.v > b.v

RECURSIVE InsertByDateBeforeEqual(_, _)
\* Mutant: an unstable insertion, x goes before the elements of its own date.
InsertByDateBeforeEqual(s, x) ==
    IF s = << >> THEN << x >>
    ELSE IF s[Len(s)].date < x.date THEN Append(s, x)
    ELSE Append(InsertByDateBeforeEqual(SubSeq(s, 1, Len(s) - 1), x),
                s[Len(s)])

RECURSIVE InsertByDate(_, _)
\* One step of a stable ascending sort on date: x goes after every element
\* whose date is <= x.date.
InsertByDate(s, x) ==
    IF s = << >> THEN << x >>
    ELSE IF s[Len(s)].date <= x.date THEN Append(s, x)
    ELSE Append(InsertByDate(SubSeq(s, 1, Len(s) - 1), x), s[Len(s)])

RECURSIVE SortByDate(_)
\* array.sort((a, b) => a.date.getTime() - b.date.getTime()): ascending by
\* date, stable (equal dates keep their order in the array).
SortByDate(s) ==
    IF s = << >> THEN << >>
    ELSE InsertByDate(SortByDate(SubSeq(s, 1, Len(s) - 1)), s[Len(s)])

\* ------------------------------------------------------ interest accrual
\* balance * ((interestRate / 100) / 12), computed without overflowing
\* 32-bit integers: floor(balance * rate / 1200).
InterestAmount(balance, rate) ==
    (balance \div 1200) * rate + (((balance % 1200) * rate) \div 1200)

\* The reduce callback of the balance fold: payments subtract, every other
\* type (initial, loanIncrease, interest) adds.
BalanceStep(acc, t) ==
    IF t.type = "payment" THEN Minus(acc, ParseFloat(t.amount))
    ELSE Plus(acc, ParseFloat(t.amount))

RECURSIVE ReduceBalance(_)
\* array.reduce(callback, 0), left to right.
ReduceBalance(s) ==
    IF s = << >> THEN Num(0)
    ELSE BalanceStep(ReduceBalance(SubSeq(s, 1, Len(s) - 1)), s[Len(s)])

\* dynamicTransactions.filter(t => t.date < startOfMonth).reduce(..., 0)
BalanceBefore(dynamicTransactions, startOfMonth) ==
    ReduceBalance(SelectSeq(dynamicTransactions,
                            LAMBDA t : t.date < startOfMonth))

\* The while condition: the month of dateIterator ended before now
\* (its last day, at local midnight, is earlier than the instant `today`).
LoopContinues(dateIterator, today) ==
    Midnight(LastDay(MonthOf(dateIterator))) < today

\* The transaction pushed for a month: dated on the month's last day.
NewInterestTx(endOfMonth, interestAmount) ==
    [date |-> endOfMonth, type |-> "interest", amount |-> interestAmount,
     authorId |-> "system"]

\* An element of dynamicTransactions: the fields the fold reads.  amount is
\* the raw field, parsed by the fold.
Entry(t) ==
    [date |-> t.date, amount |-> Some(t.amount), type |-> t.type,
     authorId |-> t.authorId]

\* Mutant: the accrual is not pushed; later months see the principal only.
PushAccrualDropped(dynamicTransactions, tx) == dynamicTransactions

\* dynamicTransactions.push({...newInterestTx, date: endOfMonth}) and the
\* sort that follows: the accrual joins the fold of the later months.
PushAccrual(dynamicTransactions, tx) ==
    SortByDate(Append(dynamicTransactions, Entry(tx)))

\* Mutant: every positive interest is material.
MaterialAnyPositive(interestAmount) == interestAmount > 0

\* if(interestAmount > 0.005): the materiality threshold of half a cent.
Material(interestAmount) == interestAmount > HalfCent

RECURSIVE MonthLoop(_, _, _, _, _)
\* The while loop of runInterestCalculation: the accruals it hands to
\* batch.set, in the order generated.
MonthLoop(dateIterator, dynamicTransactions, generated, rate, today) ==
    IF ~LoopContinues(dateIterator, today) THEN generated
    ELSE LET mi == MonthOf(dateIterator)
             startOfMonth == FirstDay(mi)
             endOfMonth == LastDay(mi)
             balance == BalanceBefore(dynamicTransactions, startOfMonth)
             interestAmount == InterestAmount(balance.v, rate)
             accrues == /\ Greater(balance, Num(0))
                        /\ rate > 0
                        /\ Material(interestAmount)
             tx == NewInterestTx(endOfMonth, interestAmount)
         IN  MonthLoop(SetMonthPlusOne(dateIterator),
                       IF accrues THEN PushAccrual(dynamicTransactions, tx)
                                  ELSE dynamicTransactions,
                       IF accrues THEN Append(generated, tx) ELSE generated,
                       rate, today)

RECURSIVE MonthWalk(_, _)
\* The months the while loop visits, in the order visited: getMonth() of
\* dateIterator at each turn, dateIterator advanced by setMonth at its end.
MonthWalk(dateIterator, today) ==
    IF ~LoopContinues(dateIterator, today) THEN << >>
    ELSE << MonthOf(dateIterator) >>
           \o MonthWalk(SetMonthPlusOne(dateIterator), today)

\* currentTransactions.filter(t => t.type !== 'interest')
NonInterest(currentTransactions) ==
    SelectSeq(currentTransactions, LAMBDA t : t.type # "interest")

\* The initial entry followed by the non-interest transactions, sorted.
DynamicTransactions(settings, currentTransactions) ==
    SortByDate(<< [date |-> Get(settings.initialLoanDate),
                   amount |-> settings.initialLoanAmount,
                   type |-> "initial", authorId |-> "none"] >>
               \o [i \in 1 .. Len(NonInterest(currentTransactions)) |->
                     Entry(NonInterest(currentTransactions)[i])])

\* Everything one pass hands to batch.set, given its arguments and the clock.
GeneratedAccruals(settings, currentTransactions, today) ==
    MonthLoop(Get(settings.initialLoanDate),
              DynamicTransactions(settings, currentTransactions),
              << >>, Get(settings.interestRate), today)

\* ---------------------------------------------------------------- state
VARIABLES
    today,                  \* the instant new Date() returns
    settings,               \* the loan document's settings in the store
    store,                  \* the loan's transactions collection: a set of documents
    isCalculatingInterest,  \* per client: the React state
    rendered,               \* per client: isCalculatingInterest as the latest render
                            \* (and every closure created by it) sees it
    pass,                   \* the calls of runInterestCalculation past the guard
    nDocs,                  \* documents created by addDoc so far
    editingTransaction,     \* per client: the id of the transaction being edited
    loanData,               \* one screen: the settings its listener delivered
    transactions,           \* one screen: the transactions its listener delivered
    sortDirection,          \* one screen: 'asc' or 'desc'
    ledger,                 \* one screen: what the ledger useMemo returned
    percentagePaidOff,      \* one screen: the percentagePaidOff useMemo, in
                            \* hundredths of a percent
    projectionPayment,      \* one screen: the projection input field
    amortizationSchedule,   \* one screen: the projected schedule
    notification,           \* one screen: the error handleCalculateProjections
                            \* raised last ("none": it raised none)
    timeZone                \* one screen: the hours its clock is ahead of UTC

storeVars == << today, settings, store, isCalculatingInterest, rendered, pass,
                nDocs, editingTransaction >>

screenVars == << loanData, transactions, sortDirection, ledger >>

panelVars == << percentagePaidOff, projectionPayment, amortizationSchedule,
                notification, timeZone >>

vars == << storeVars, screenVars, panelVars >>

Passes == 1 .. MaxPasses

\* Document ids are unique; [pass, n] is the n-th document created by pass
\* `pass`, pass 0 standing for the handlers and pass -1 for earlier sessions.
Id(k, n) == [pass |-> k, n |-> n]
IdLess(a, b) == a.pass < b.pass \/ (a.pass = b.pass /\ a.n < b.n)

NoSettings ==
    [initialLoanAmount |-> Null, initialLoanDate |-> Null, interestRate |-> Null]

IdlePass ==
    [pc |-> "idle", client |-> "none", settings |-> NoSettings, trans |-> << >>,
     deletes |-> {}, sets |-> {}, raced |-> FALSE]

\* ------------------------------------------------------------- the store
InterestDocs(docs) == {d \in docs : d.type = "interest"}
UserDocs(docs) == {d \in docs : d.authorId # "system"}

RECURSIVE OrderByDate(_)
\* query(transactionsColRef, orderBy('date', 'asc')): by date, documents of
\* one date by id.
OrderByDate(docs) ==
    IF docs = {} THEN << >>
    ELSE LET first == CHOOSE d \in docs : \A e \in docs \ {d} :
                         d.date < e.date \/ (d.date = e.date /\ IdLess(d.id, e.id))
         IN  << first >> \o OrderByDate(docs \ {first})

\* Mutant: the query names a type no document has.
InterestQueryWrongType(docs) == {d \in docs : d.type = "Interest"}

\* query(transactionsRef, where('type', '==', 'interest')) at the moment
\* getDocs is served.
InterestQuery(docs) == InterestDocs(docs)

\* Mutant: a commit that applies the deletes of the batch and loses its sets.
ApplyBatchDeletesOnly(docs, deletes, sets) ==
    {d \in docs : d.id \notin deletes}

\* Mutant: the commit applies the sets and drops the deletes.
ApplyBatchSetsOnly(docs, deletes, sets) == docs \cup sets

\* batch.commit(): the deletes and the sets, applied together.  Deleting a
\* document that is no longer there succeeds.
ApplyBatch(docs, deletes, sets) ==
    {d \in docs : d.id \notin deletes} \cup sets

\* ------------------------------------------------- runInterestCalculation
\* The guard: `isCalculatingInterest` is the value the calling closure
\* captured; currentLoanData is Null when the argument is not passed.
GuardReturns(flagSeen, currentLoanData) ==
    \/ flagSeen
    \/ currentLoanData = Null
    \/ Get(currentLoanData).initialLoanDate = Null
    \/ Get(currentLoanData).interestRate = Null

InFlight(p) == p.pc \in {"getDocs", "commit"}

FirstIdle(p) ==
    CHOOSE k \in Passes : p[k].pc = "idle" /\ \A j \in 1 .. k - 1 : p[j].pc # "idle"

\* A call up to its first await: the guard, setIsCalculatingInterest(true),
\* then the interest query is sent.
PassAfterCall(p, c, flagSeen, currentLoanData, currentTransactions) ==
    IF GuardReturns(flagSeen, currentLoanData) THEN p
    ELSE [p EXCEPT ![FirstIdle(p)] =
             [pc |-> "getDocs", client |-> c,
              settings |-> Get(currentLoanData),
              trans |-> NonInterest(currentTransactions),
              deletes |-> {}, sets |-> {}, raced |-> FALSE]]

FlagAfterCall(f, c, flagSeen, currentLoanData) ==
    IF GuardReturns(flagSeen, currentLoanData) THEN f
    ELSE [f EXCEPT ![c] = TRUE]

\* History: the store (or the settings) changed under the passes in flight.
MarkRaced(p, which) ==
    [k \in Passes |-> IF p[k].pc \in which THEN [p[k] EXCEPT !.raced = TRUE]
                      ELSE p[k]]

\* The documents a pass creates: doc(transactionsRef) gives each a fresh id.
BatchSets(k, generated) ==
    {[id |-> Id(k, i), date |-> generated[i].date, type |-> generated[i].type,
      amount |-> generated[i].amount, authorId |-> generated[i].authorId]
        : i \in 1 .. Len(generated)}

\* A caller invokes runInterestCalculation(loanData, transactions) with the
\* loan's current settings and transactions.
Call(c) ==
    /\ \E k \in Passes : pass[k].pc = "idle"
    /\ pass' = PassAfterCall(pass, c, rendered[c], Some(settings),
                             OrderByDate(store))
    /\ isCalculatingInterest' =
           FlagAfterCall(isCalculatingInterest, c, rendered[c], Some(settings))
    /\ UNCHANGED << today, settings, store, rendered, nDocs, editingTransaction,
                    screenVars, panelVars >>

\* getDocs resolves: every interest document found is queued for deletion,
\* then the accruals are generated and queued, and batch.commit() is sent.
GetDocs(k) ==
    /\ pass[k].pc = "getDocs"
    /\ pass' = [pass EXCEPT ![k] =
           [@ EXCEPT !.pc = "commit",
                     !.deletes = {d.id : d \in InterestQuery(store)},
                     !.sets = BatchSets(k, GeneratedAccruals(pass[k].settings,
                                                             pass[k].trans, today))]]
    /\ UNCHANGED << today, settings, store, isCalculatingInterest, rendered,
                    nDocs, editingTransaction,
                    screenVars, panelVars >>

\* getDocs rejects: the await is outside the try, so the call ends with the
\* exception and runs nothing of what follows, the reset of the flag
\* included.
GetDocsFails(k) ==
    /\ pass[k].pc = "getDocs"
    /\ pass' = [pass EXCEPT ![k] = [@ EXCEPT !.pc = "threw"]]
    /\ UNCHANGED << today, settings, store, isCalculatingInterest, rendered,
                    nDocs, editingTransaction,
                    screenVars, panelVars >>

\* batch.commit() resolves, then setIsCalculatingInterest(false).
Commit(k) ==
    /\ pass[k].pc = "commit"
    /\ store' = ApplyBatch(store, pass[k].deletes, pass[k].sets)
    /\ pass' = [MarkRaced(pass, {"commit"}) EXCEPT ![k] = [pass[k] EXCEPT !.pc = "done"]]
    /\ isCalculatingInterest' =
           [isCalculatingInterest EXCEPT ![pass[k].client] = FALSE]
    /\ UNCHANGED << today, settings, rendered, nDocs, editingTransaction,
                    screenVars, panelVars >>

\* batch.commit() rejects: nothing is written; the catch reports it, then
\* setIsCalculatingInterest(false).
CommitFails(k) ==
    /\ pass[k].pc = "commit"
    /\ pass' = [pass EXCEPT ![k] = [@ EXCEPT !.pc = "failed"]]
    /\ isCalculatingInterest' =
           [isCalculatingInterest EXCEPT ![pass[k].client] = FALSE]
    /\ UNCHANGED << today, settings, store, rendered, nDocs, editingTransaction,
                    screenVars, panelVars >>

\* React renders the component again: the new closures see the new state.
Render(c) ==
    /\ rendered[c] # isCalculatingInterest[c]
    /\ rendered' = [rendered EXCEPT ![c] = isCalculatingInterest[c]]
    /\ UNCHANGED << today, settings, store, isCalculatingInterest, pass, nDocs,
                    editingTransaction,
                    screenVars, panelVars >>

\* --------------------------------------------------------------- handlers
\* Mutant: the validation lets amounts <= 0 through.
InvalidTransactionSignUnchecked(newTransactionDate, newTransactionAmount) ==
    \/ newTransactionDate = Null
    \/ ParseFloat(newTransactionAmount).nan

\* !newTransactionDate || isNaN(parseFloat(newTransactionAmount))
\*                     || parseFloat(newTransactionAmount) <= 0
InvalidTransaction(newTransactionDate, newTransactionAmount) ==
    \/ newTransactionDate = Null
    \/ ParseFloat(newTransactionAmount).nan
    \/ ParseFloat(newTransactionAmount).v <= 0

\* handleEditTransaction: the Edit button of a displayed row, rendered for
\* the transactions whose authorId is not 'system'.
HandleEditTransaction(c, transaction) ==
    /\ \E d \in UserDocs(store) : d.id = transaction
    /\ editingTransaction' = [editingTransaction EXCEPT ![c] = Some(transaction)]
    /\ UNCHANGED << today, settings, store, isCalculatingInterest, rendered,
                    pass, nDocs, screenVars, panelVars >>

\* handleCancelEdit
HandleCancelEdit(c) ==
    /\ editingTransaction[c] # Null
    /\ editingTransaction' = [editingTransaction EXCEPT ![c] = Null]
    /\ UNCHANGED << today, settings, store, isCalculatingInterest, rendered,
                    pass, nDocs, screenVars, panelVars >>

\* handleAddOrUpdateTransaction: validation, then setDoc (merge) on the
\* edited id or addDoc, then `await runInterestCalculation()`, which passes
\* no arguments.
HandleAddOrUpdateTransaction(c, newTransactionDate, newTransactionType, newTransactionAmount) ==
    IF InvalidTransaction(newTransactionDate, newTransactionAmount)
    THEN UNCHANGED vars
    ELSE LET editing == editingTransaction[c] # Null
             id == IF editing THEN Get(editingTransaction[c])
                   ELSE Id(0, nDocs + 1)
             transactionData ==
                 [id |-> id, date |-> Get(newTransactionDate),
                  type |-> newTransactionType,
                  amount |-> ParseFloat(newTransactionAmount).v,
                  authorId |-> c]
         IN  /\ editing \/ nDocs < MaxTx
             /\ store' = {d \in store : d.id # id} \cup {transactionData}
             /\ nDocs' = IF editing THEN nDocs ELSE nDocs + 1
             /\ editingTransaction' = [editingTransaction EXCEPT ![c] = Null]
             /\ pass' = PassAfterCall(MarkRaced(pass, {"getDocs", "commit"}),
                                      c, rendered[c], Null, << >>)
             /\ isCalculatingInterest' =
                    FlagAfterCall(isCalculatingInterest, c, rendered[c], Null)
             /\ UNCHANGED << today, settings, rendered,
                    screenVars, panelVars >>

\* handleDeleteTransaction: deleteDoc, then `await runInterestCalculation()`.
\* The delete button is rendered for the transactions whose authorId is not
\* 'system'.
HandleDeleteTransaction(c, transactionToDelete) ==
    /\ \E d \in UserDocs(store) : d.id = transactionToDelete
    /\ store' = {d \in store : d.id # transactionToDelete}
    /\ pass' = PassAfterCall(MarkRaced(pass, {"getDocs", "commit"}),
                             c, rendered[c], Null, << >>)
    /\ isCalculatingInterest' =
           FlagAfterCall(isCalculatingInterest, c, rendered[c], Null)
    /\ UNCHANGED << today, settings, rendered, nDocs, editingTransaction,
                    screenVars, panelVars >>

\* A number field of the stored settings that holds NaN.  It is no absent
\* field (it differs from Null), and Get reads it as 0, a number that like
\* NaN fails `> 0` and is falsy.
StoredNaN == << 0, "NaN" >>

\* What setDoc stores of a parsed number.
StoreNumber(x) == IF x.nan THEN StoredNaN ELSE Some(x.v)

\* new Date(day + 'T00:00:00'): midnight of the day on a clock `zone` hours
\* ahead of UTC, in hours since 2024-01-01T00:00Z.
LocalMidnight(day, zone) == HoursPerDay * day - zone

\* toISOString().split('T')[0]: the UTC calendar day of an instant.
ToISODate(instant) == instant \div HoursPerDay

\* value || '': a stored number as the form field shows it; absent, 0 and
\* NaN give the empty field.
FieldOrEmpty(o) == IF o = Null \/ o = StoredNaN \/ Get(o) = 0 THEN Null ELSE o

\* The effect on loanData: formSettings as loaded from the stored settings.
\* The stored initialLoanDate is the midnight handleSaveSettings wrote.
FormSettings(data, zone) ==
    [initialLoanAmount |-> FieldOrEmpty(data.initialLoanAmount),
     interestRate |-> FieldOrEmpty(data.interestRate),
     initialLoanDate |->
         IF data.initialLoanDate = Null THEN Null
         ELSE Some(ToISODate(LocalMidnight(Get(data.initialLoanDate), zone)))]

\* isNaN(newSettings.initialLoanAmount) || newSettings.interestRate == null
\*                                      || !formSettings.initialLoanDate
\* parseFloat returns a number, never null: the middle test is never true.
InvalidSettings(formAmount, formRate, formDate) ==
    \/ ParseFloat(formAmount).nan
    \/ FALSE
    \/ formDate = Null

\* handleSaveSettings: the form's fields parsed, validated, written with
\* setDoc (merge), then `await runInterestCalculation()`.  An empty amount
\* parses to NaN and is rejected, as is an empty date.
HandleSaveSettings(c, formAmount, formRate, formDate) ==
    IF InvalidSettings(formAmount, formRate, formDate)
    THEN UNCHANGED vars
    ELSE /\ settings' = [initialLoanAmount |-> StoreNumber(ParseFloat(formAmount)),
                         initialLoanDate |-> formDate,
                         interestRate |-> StoreNumber(ParseFloat(formRate))]
         /\ settings' # settings
         /\ pass' = PassAfterCall(MarkRaced(pass, {"getDocs", "commit"}),
                                  c, rendered[c], Null, << >>)
         /\ isCalculatingInterest' =
                FlagAfterCall(isCalculatingInterest, c, rendered[c], Null)
         /\ UNCHANGED << today, store, rendered, nDocs, editingTransaction,
                    screenVars, panelVars >>

\* ------------------------------------------------------------ the ledger
\* The id 'initial' of the synthetic first entry.
InitialId == Id(-2, 0)

\* A setting that is falsy under `!x`: absent, or 0.
Falsy(o) == o = Null \/ Get(o) = 0

\* The guard of the ledger useMemo: with no amount or no date the ledger is
\* empty.
LedgerEmpty(data) ==
    \/ data = Null
    \/ Falsy(Get(data).initialLoanAmount)
    \/ Get(data).initialLoanDate = Null

RECURSIVE InsertByDateDesc(_, _)
InsertByDateDesc(s, x) ==
    IF s = << >> THEN << x >>
    ELSE IF s[Len(s)].date >= x.date THEN Append(s, x)
    ELSE Append(InsertByDateDesc(SubSeq(s, 1, Len(s) - 1), x), s[Len(s)])

RECURSIVE SortByDateDesc(_)
\* array.sort((a, b) => b.date.getTime() - a.date.getTime()): descending by
\* date, stable.
SortByDateDesc(s) ==
    IF s = << >> THEN << >>
    ELSE InsertByDateDesc(SortByDateDesc(SubSeq(s, 1, Len(s) - 1)), s[Len(s)])

\* The initial entry followed by the transactions, sorted ascending by date.
AllTransactions(data, trans) ==
    SortByDate(<< [id |-> InitialId,
                   date |-> Get(Get(data).initialLoanDate),
                   type |-> "initial",
                   amount |-> Get(Get(data).initialLoanAmount),
                   authorId |-> "none"] >> \o trans)

\* Mutant: every entry, payments too, adds to the running balance.
RunningBalanceAllAdd(runningBalance, t) == runningBalance + t.amount

\* One step of the fold: a payment subtracts, every other type adds.
RunningBalanceAfter(runningBalance, t) ==
    IF t.type = "payment" THEN runningBalance - t.amount
    ELSE runningBalance + t.amount

RECURSIVE CalculatedTransactions(_)
\* allTransactions.map(...): each entry with the running balance after it.
CalculatedTransactions(all) ==
    IF all = << >> THEN << >>
    ELSE LET before == CalculatedTransactions(SubSeq(all, 1, Len(all) - 1))
             t == all[Len(all)]
             runningBalance == IF before = << >> THEN 0
                               ELSE before[Len(before)].runningBalance
         IN  Append(before,
                    [id |-> t.id, date |-> t.date, type |-> t.type,
                     amount |-> t.amount, authorId |-> t.authorId,
                     runningBalance |-> RunningBalanceAfter(runningBalance, t)])

\* Mutant: the first payment of the fold is kept instead of the last.
LastPaymentInfoFirst(all) ==
    LET payments == SelectSeq(all, LAMBDA t : t.type = "payment")
    IN  IF payments = << >> THEN Null
        ELSE Some([date |-> payments[1].date, amount |-> payments[1].amount])

\* lastPaymentInfo: the payment the fold met last, if any.
LastPaymentInfo(all) ==
    LET payments == SelectSeq(all, LAMBDA t : t.type = "payment")
    IN  IF payments = << >> THEN Null
        ELSE Some([date |-> payments[Len(payments)].date,
                   amount |-> payments[Len(payments)].amount])

\* The ledger useMemo.
Ledger(data, trans, direction) ==
    IF LedgerEmpty(data)
    THEN [calculatedTransactions |-> << >>, transactionsForDisplay |-> << >>,
          currentRunningBalance |-> 0, lastPayment |-> Null]
    ELSE LET calculated == CalculatedTransactions(AllTransactions(data, trans))
         IN  [calculatedTransactions |-> calculated,
              transactionsForDisplay |->
                  IF direction = "desc" THEN SortByDateDesc(calculated)
                  ELSE SortByDate(calculated),
              currentRunningBalance |->
                  calculated[Len(calculated)].runningBalance,
              lastPayment |-> LastPaymentInfo(calculated)]

\* isSetupComplete: initialLoanAmount && initialLoanDate
\*                                     && interestRate != null
IsSetupComplete(data) ==
    /\ data # Null
    /\ ~Falsy(Get(data).initialLoanAmount)
    /\ Get(data).initialLoanDate # Null
    /\ Get(data).interestRate # Null

\* Percentages are held in hundredths of a percent.
Percent == 100

\* The amount in whole cents.
InCents(amount) == amount \div Cent

RECURSIVE TotalPaidAllTypes(_)
\* Mutant: the amounts of all transactions are summed, whatever their type.
TotalPaidAllTypes(trans) ==
    IF trans = << >> THEN 0
    ELSE TotalPaidAllTypes(SubSeq(trans, 1, Len(trans) - 1))
           + trans[Len(trans)].amount

RECURSIVE TotalPrincipalPaid(_)
\* transactions.filter(t => t.type === 'payment').reduce(acc + amount, 0)
TotalPrincipalPaid(trans) ==
    IF trans = << >> THEN 0
    ELSE TotalPrincipalPaid(SubSeq(trans, 1, Len(trans) - 1))
           + (IF trans[Len(trans)].type = "payment"
              THEN trans[Len(trans)].amount ELSE 0)

\* Math.max(0, Math.min(100, x))
Clamp(x) ==
    IF x < 0 THEN 0 ELSE IF x > 100 * Percent THEN 100 * Percent ELSE x

\* The percentagePaidOff useMemo.
PercentagePaidOff(data, trans) ==
    IF \/ data = Null
       \/ Falsy(Get(data).initialLoanAmount)
       \/ Get(Get(data).initialLoanAmount) <= 0
    THEN 0
    ELSE Clamp((InCents(TotalPrincipalPaid(trans)) * 100 * Percent)
                  \div InCents(Get(Get(data).initialLoanAmount)))

\* The settings listener delivers the loan document.
OnSettingsSnapshot(data) ==
    /\ loanData' = data
    /\ ledger' = Ledger(data, transactions, sortDirection)
    /\ percentagePaidOff' = PercentagePaidOff(data, transactions)
    /\ UNCHANGED << storeVars, transactions, sortDirection,
                    projectionPayment, amortizationSchedule, notification,
                    timeZone >>

\* The transactions listener delivers the collection, ordered by date.
OnTransactionsSnapshot(docs) ==
    /\ transactions' = OrderByDate(docs)
    /\ ledger' = Ledger(loanData, transactions', sortDirection)
    /\ percentagePaidOff' = PercentagePaidOff(loanData, transactions')
    /\ UNCHANGED << storeVars, loanData, sortDirection,
                    projectionPayment, amortizationSchedule, notification,
                    timeZone >>

\* The sort button.
ToggleSortDirection ==
    /\ sortDirection' = IF sortDirection = "asc" THEN "desc" ELSE "asc"
    /\ ledger' = Ledger(loanData, transactions, sortDirection')
    /\ UNCHANGED << storeVars, loanData, transactions, panelVars >>

\* ------------------------------------------------------- the projection
\* The 600 of `month < 600`.
MonthCap == 600

\* Mutant: the row records the balance as it is, negative too.
ScheduleRowUnclamped(month, monthlyPayment, principalForMonth, interestForMonth, balance) ==
    [month |-> month, payment |-> monthlyPayment,
     principal |-> principalForMonth, interest |-> interestForMonth,
     endingBalance |-> balance]

\* One row of the schedule; endingBalance is clamped at 0.
ScheduleRow(month, monthlyPayment, principalForMonth, interestForMonth, balance) ==
    [month |-> month, payment |-> monthlyPayment,
     principal |-> principalForMonth, interest |-> interestForMonth,
     endingBalance |-> IF balance > 0 THEN balance ELSE 0]

\* Mutant: the balance does not go down by the principal paid.
BalanceAfterMonthUnpaid(balance, principalForMonth) == balance

\* balance -= principalForMonth
BalanceAfterMonth(balance, principalForMonth) == balance - principalForMonth

\* while (balance > 0 && month < 600)
ScheduleLoopContinues(balance, month) == balance > 0 /\ month < MonthCap

\* One turn of the while loop on its variables balance, month and schedule;
\* once the loop condition fails the variables stay as they are.
ScheduleStep(loop, monthlyPayment, rate) ==
    IF ~ScheduleLoopContinues(loop.balance, loop.month) THEN loop
    ELSE LET interestForMonth == InterestAmount(loop.balance, rate)
             principalForMonth == monthlyPayment - interestForMonth
             after == BalanceAfterMonth(loop.balance, principalForMonth)
         IN  [balance |-> after,
              month |-> loop.month + 1,
              schedule |-> Append(loop.schedule,
                                  ScheduleRow(loop.month, monthlyPayment,
                                              principalForMonth,
                                              interestForMonth, after))]

RECURSIVE ScheduleTurns(_, _, _, _)
\* n turns of the loop, taken as two halves to keep the evaluation shallow.
ScheduleTurns(loop, n, monthlyPayment, rate) ==
    IF n = 0 THEN loop
    ELSE IF n = 1 THEN ScheduleStep(loop, monthlyPayment, rate)
    ELSE LET half == ScheduleTurns(loop, n \div 2, monthlyPayment, rate)
         IN  IF ~ScheduleLoopContinues(half.balance, half.month) THEN half
             ELSE ScheduleTurns(half, n - (n \div 2), monthlyPayment, rate)

\* The while loop of handleCalculateProjections, run until its condition
\* fails (which it does within MonthCap turns), and the schedule it leaves.
ScheduleLoop(balance, monthlyPayment, rate) ==
    ScheduleTurns([balance |-> balance, month |-> 1, schedule |-> << >>],
                  MonthCap, monthlyPayment, rate).schedule

\* Mutant: only the empty field is invalid; payments <= 0 pass.
InvalidPaymentEmptyOnly(payment) == payment = Null

\* !projectionPayment || isNaN(parseFloat(...)) || parseFloat(...) <= 0
InvalidPayment(payment) == payment = Null \/ Get(payment) <= 0

\* Mutant: every valid payment is taken as large enough.
PaymentTooSmallNever(monthlyPayment, balance, rate) == FALSE

\* monthlyPayment <= balance * monthlyRate
PaymentTooSmall(monthlyPayment, balance, rate) ==
    monthlyPayment <= InterestAmount(balance, rate)

\* The projection panel is rendered: setup is complete and the rate is > 0.
ProjectionsShown ==
    /\ loanData # Null
    /\ ~Falsy(Get(loanData).initialLoanAmount)
    /\ Get(loanData).initialLoanDate # Null
    /\ Get(loanData).interestRate # Null
    /\ Get(Get(loanData).interestRate) > 0

\* The member types into the projection field.
SetProjectionPayment(payment) ==
    /\ ProjectionsShown
    /\ projectionPayment' = payment
    /\ UNCHANGED << storeVars, screenVars, percentagePaidOff,
                    amortizationSchedule, notification, timeZone >>

\* handleCalculateProjections, the Calculate button.
HandleCalculateProjections ==
    /\ ProjectionsShown
    /\ IF InvalidPayment(projectionPayment)
       THEN /\ notification' = "invalidPayment"
            /\ UNCHANGED amortizationSchedule
       ELSE IF PaymentTooSmall(Get(projectionPayment),
                               ledger.currentRunningBalance,
                               Get(Get(loanData).interestRate))
       THEN /\ notification' = "paymentTooSmall"
            /\ amortizationSchedule' = << >>
       ELSE /\ amortizationSchedule' =
                   ScheduleLoop(ledger.currentRunningBalance,
                                Get(projectionPayment),
                                Get(Get(loanData).interestRate))
            /\ UNCHANGED notification
    /\ UNCHANGED << storeVars, screenVars, percentagePaidOff,
                    projectionPayment, timeZone >>

\* ------------------------------------------------------- the state machine
\* A transaction form as submitted.
Form(date, type, amount) == [date |-> date, type |-> type, amount |-> amount]

\* Interest documents left in the store by earlier sessions.
StoredInterest(n, endOfMonth, amount) ==
    [id |-> Id(-1, n), date |-> endOfMonth, type |-> "interest",
     amount |-> amount, authorId |-> "system"]

Configured(amount, date, rate) ==
    [initialLoanAmount |-> Some(amount), initialLoanDate |-> Some(date),
     interestRate |-> rate]

InitClients ==
    /\ isCalculatingInterest = [c \in Clients |-> FALSE]
    /\ rendered = [c \in Clients |-> FALSE]
    /\ pass = [k \in Passes |-> IdlePass]
    /\ nDocs = 0
    /\ editingTransaction = [c \in Clients |-> Null]

\* The screen as mounted: nothing delivered yet, newest first.
InitScreen ==
    /\ loanData = Null
    /\ transactions = << >>
    /\ sortDirection = "desc"
    /\ ledger = Ledger(Null, << >>, "desc")
    /\ percentagePaidOff = PercentagePaidOff(Null, << >>)
    /\ projectionPayment = Null
    /\ amortizationSchedule = << >>
    /\ notification = "none"
    /\ timeZone = 0

\* ---- Spec: one member's screen: the handlers, and calls of
\* runInterestCalculation made one after the other.
\* The clock: the 10th of April 2024.
Todays == {Midday(Day(3, 10))}

\* The store as earlier sessions left it: no interest, or a stale accrual
\* for January and February accrued twice.
InitStores ==
    {{},
     {StoredInterest(1, LastDay(0), 5 * Dollar),
      StoredInterest(2, LastDay(1), 10 * Dollar),
      StoredInterest(3, LastDay(1), 10 * Dollar)}}

Forms ==
    {Form(Some(Day(0, 20)), "payment", Some(200 * Dollar)),
     Form(Some(Day(0, 20)), "payment", Some(0)),
     Form(Some(Day(0, 20)), "payment", Some(0 - 200 * Dollar)),
     Form(Some(Day(0, 20)), "payment", Null),
     Form(Null, "payment", Some(200 * Dollar))}

Init ==
    /\ today \in Todays
    /\ settings \in {NoSettings,
                     Configured(1000 * Dollar, Day(0, 15), Some(12))}
    /\ store \in InitStores
    /\ InitClients
    /\ InitScreen

\* A call made when no earlier call is still running.
CallInTurn(c) ==
    /\ \A k \in Passes : ~InFlight(pass[k])
    /\ Call(c)

Next ==
    \/ CallInTurn("u1")
    \/ \E k \in Passes : GetDocs(k)
    \/ \E k \in Passes : Commit(k)
    \/ Render("u1")
    \/ \E f \in Forms :
          HandleAddOrUpdateTransaction("u1", f.date, f.type, f.amount)
    \/ \E d \in UserDocs(store) : HandleDeleteTransaction("u1", d.id)
    \/ \E a \in {Null, Some(1000 * Dollar)}, r \in {0, 12} :
          HandleSaveSettings("u1", a, Some(r), Some(Day(0, 15)))

Spec == Init /\ [][Next]_vars

\* ---- SpecShared: two members of one loan calling runInterestCalculation,
\* with nothing else writing the store.
InitShared ==
    /\ today \in Todays
    /\ settings = Configured(1000 * Dollar, Day(0, 15), Some(12))
    /\ store \in InitStores
    /\ InitClients
    /\ InitScreen

NextShared ==
    \/ \E c \in Clients : Call(c)
    \/ \E k \in Passes : GetDocs(k)
    \/ \E k \in Passes : Commit(k)
    \/ \E k \in Passes : CommitFails(k)
    \/ \E c \in Clients : Render(c)

SpecShared == InitShared /\ [][NextShared]_vars

\* ---- SpecAccrual: runInterestCalculation applied to a range of loans,
\* transaction sets and clocks, one call after the other.
\* The clock: the 10th and the last day (at midnight and during the day) of
\* the months 1 .. MaxMonths after January 2024.
TodayChoices ==
    UNION {{Midday(Day(m, 10)), Midnight(LastDay(m)), Midday(LastDay(m))}
            : m \in 1 .. MaxMonths}

InitialDates == {Day(0, 1), Day(0, 15), Day(0, 31)}

\* Initial amounts: 1000 dollars, and 40, 50 and 60 cents, whose monthly
\* interest at 12% is below, at and above half a cent; or no amount at all.
InitialAmounts ==
    {Some(1000 * Dollar), Some(40 * Cent), Some(50 * Cent), Some(60 * Cent),
     Null}

\* The transactions members may have recorded.
StoredTransaction(n, date, type, amount) ==
    [id |-> Id(0, n), date |-> date, type |-> type, amount |-> amount,
     authorId |-> "u1"]

TransactionPool ==
    {StoredTransaction(1, Day(0, 20), "payment", 200 * Dollar),
     StoredTransaction(2, Day(1, 1), "loanIncrease", 100 * Dollar),
     StoredTransaction(3, Day(1, 15), "payment", 200 * Dollar),
     StoredTransaction(4, Day(2, 5), "payment", 1200 * Dollar)}

\* An interest document a pass of an earlier session left in the store.
StaleInterest == {StoredInterest(1, LastDay(0), 5 * Dollar)}

InitAccrual ==
    /\ today \in TodayChoices
    /\ settings \in {[initialLoanAmount |-> a, initialLoanDate |-> Some(d),
                        interestRate |-> r] :
                        a \in InitialAmounts, d \in InitialDates,
                        r \in {Null, Some(0), Some(12)}}
    /\ \E S \in SUBSET TransactionPool, stale \in SUBSET StaleInterest :
          /\ Cardinality(S) <= MaxTx
          /\ store = S \cup stale
    /\ InitClients
    /\ InitScreen

NextAccrual ==
    \/ CallInTurn("u1")
    \/ \E k \in Passes : GetDocs(k)
    \/ \E k \in Passes : Commit(k)

SpecAccrual == InitAccrual /\ [][NextAccrual]_vars

\* ---- SpecLedger: one screen receiving snapshots and toggling the sort.
LedgerPool ==
    {StoredTransaction(1, Day(0, 15), "loanIncrease", 100 * Dollar),
     StoredTransaction(2, Day(1, 1), "payment", 200 * Dollar),
     StoredTransaction(3, Day(0, 10), "payment", 200 * Dollar),
     StoredTransaction(4, Day(1, 1), "loanIncrease", 100 * Dollar),
     StoredTransaction(5, Day(1, 15), "payment", 1200 * Dollar),
     StoredInterest(1, LastDay(0), 10 * Dollar)}

LedgerSettings ==
    {NoSettings,
     Configured(1000 * Dollar, Day(0, 1), Some(12)),
     Configured(1000 * Dollar, Day(0, 15), Some(12)),
     Configured(0, Day(0, 15), Some(12)),
     Configured(0 - 500 * Dollar, Day(0, 15), Some(12)),
     [initialLoanAmount |-> Null, initialLoanDate |-> Some(Day(0, 15)),
      interestRate |-> Some(12)],
     [initialLoanAmount |-> Some(1000 * Dollar), initialLoanDate |-> Null,
      interestRate |-> Some(12)]}

InitLedger ==
    /\ today \in Todays
    /\ settings = NoSettings
    /\ store = {}
    /\ InitClients
    /\ InitScreen

NextLedger ==
    \/ \E s \in LedgerSettings : OnSettingsSnapshot(Some(s))
    \/ \E S \in SUBSET LedgerPool :
          Cardinality(S) <= MaxLedgerTx /\ OnTransactionsSnapshot(S)
    \/ ToggleSortDirection

SpecLedger == InitLedger /\ [][NextLedger]_vars

\* ---- SpecProjection: one screen with its loan loaded, the member typing
\* payments into the projection field and pressing Calculate.
ProjectionSettings ==
    {Configured(1000 * Dollar, Day(0, 1), Some(12)),
     Configured(1000 * Dollar, Day(0, 1), Some(24)),
     Configured(1000 * Dollar, Day(0, 1), Some(0))}

ProjectionTransactions ==
    {{},
     {StoredTransaction(2, Day(1, 1), "payment", 200 * Dollar)},
     {StoredTransaction(4, Day(1, 1), "loanIncrease", 100 * Dollar)},
     {StoredTransaction(5, Day(1, 1), "payment", 1200 * Dollar)}}

\* What the member may type: nothing, 0, a negative amount, and payments
\* at, just above and well above a month's interest.
ProjectionPayments ==
    {Null, Some(0), Some(0 - 10 * Dollar), Some(10 * Dollar),
     Some(10 * Dollar + Cent), Some(11 * Dollar), Some(20 * Dollar),
     Some(200 * Dollar), Some(1010 * Dollar)}

InitProjection ==
    /\ today \in Todays
    /\ settings = NoSettings
    /\ store = {}
    /\ InitClients
    /\ \E s \in ProjectionSettings, docs \in ProjectionTransactions :
          /\ loanData = Some(s)
          /\ transactions = OrderByDate(docs)
          /\ ledger = Ledger(Some(s), OrderByDate(docs), "desc")
          /\ percentagePaidOff = PercentagePaidOff(Some(s), OrderByDate(docs))
    /\ sortDirection = "desc"
    /\ projectionPayment = Null
    /\ amortizationSchedule = << >>
    /\ notification = "none"
    /\ timeZone = 0

NextProjection ==
    \/ \E payment \in ProjectionPayments : SetProjectionPayment(payment)
    \/ HandleCalculateProjections

SpecProjection == InitProjection /\ [][NextProjection]_vars

\* ---- SpecForms: one member adding, editing and deleting transactions,
\* and one call of runInterestCalculation among them.
\* The forms submitted: those of Forms, and an increase of 100.
FormsEdited ==
    Forms \cup {Form(Some(Day(1, 1)), "loanIncrease", Some(100 * Dollar))}

InitForms ==
    /\ today = Midday(Day(2, 10))
    /\ settings = Configured(1000 * Dollar, Day(0, 15), Some(12))
    /\ store = {}
    /\ InitClients
    /\ InitScreen

\* The session's first call of runInterestCalculation.
FirstCall(c) ==
    /\ \A k \in Passes : pass[k].pc = "idle"
    /\ Call(c)

NextForms ==
    \/ FirstCall("u1")
    \/ \E k \in Passes : GetDocs(k)
    \/ \E k \in Passes : Commit(k)
    \/ \E f \in FormsEdited :
          HandleAddOrUpdateTransaction("u1", f.date, f.type, f.amount)
    \/ \E d \in UserDocs(store) : HandleEditTransaction("u1", d.id)
    \/ HandleCancelEdit("u1")
    \/ \E d \in UserDocs(store) : HandleDeleteTransaction("u1", d.id)

SpecForms == InitForms /\ [][NextForms]_vars

\* ---- SpecSettings: one member saving the settings form, on a clock in
\* one of several time zones.
TimeZones == {0 - 5, 0, 1, 2}

\* What the member types into the form: nothing, or a number or a day.
SettingsAmounts == {Null, Some(1000 * Dollar), Some(0), Some(0 - 500 * Dollar)}
SettingsRates == {Null, Some(12), Some(0), Some(0 - 5)}
SettingsDates == {Null, Some(Day(0, 15))}

InitSettings ==
    /\ today \in Todays
    /\ settings \in {NoSettings, Configured(1000 * Dollar, Day(0, 15), Some(12))}
    /\ store = {}
    /\ InitClients
    /\ loanData = Null
    /\ transactions = << >>
    /\ sortDirection = "desc"
    /\ ledger = Ledger(Null, << >>, "desc")
    /\ percentagePaidOff = PercentagePaidOff(Null, << >>)
    /\ projectionPayment = Null
    /\ amortizationSchedule = << >>
    /\ notification = "none"
    /\ timeZone \in TimeZones

\* The member fills in the three fields and saves.
SaveTyped(c) ==
    \E a \in SettingsAmounts, r \in SettingsRates, d \in SettingsDates :
        HandleSaveSettings(c, a, r, d)

\* The member opens the form, loaded from the stored settings, types an
\* amount and a rate or leaves them, leaves the date, and saves.
SaveLoaded(c) ==
    LET form == FormSettings(settings, timeZone)
    IN  /\ settings.initialLoanDate # Null
        /\ Get(settings.initialLoanDate) > Day(0, 15) - MaxSaves
        /\ \E a \in SettingsAmounts \cup {form.initialLoanAmount},
              r \in SettingsRates \cup {form.interestRate} :
              HandleSaveSettings(c, a, r, form.initialLoanDate)

NextSettings ==
    \/ SaveTyped("u1")
    \/ SaveLoaded("u1")

SpecSettings == InitSettings /\ [][NextSettings]_vars

\* ---- SpecMembers: two members of one loan adding, editing and deleting
\* its transactions.
InitMembers ==
    /\ today \in Todays
    /\ settings = Configured(1000 * Dollar, Day(0, 15), Some(12))
    /\ store = {}
    /\ InitClients
    /\ InitScreen

NextMembers ==
    \/ \E c \in Clients, f \in FormsEdited :
          HandleAddOrUpdateTransaction(c, f.date, f.type, f.amount)
    \/ \E c \in Clients, d \in UserDocs(store) : HandleEditTransaction(c, d.id)
    \/ \E c \in Clients : HandleCancelEdit(c)
    \/ \E c \in Clients, d \in UserDocs(store) : HandleDeleteTransaction(c, d.id)

SpecMembers == InitMembers /\ [][NextMembers]_vars

\* ---- SpecFailures: the members' calls of runInterestCalculation, with
\* reads and commits that may be rejected.  Every read and every commit the
\* store was sent is answered, one way or the other.
NextFailures ==
    \/ \E c \in Clients : Call(c)
    \/ \E k \in Passes : GetDocs(k)
    \/ \E k \in Passes : GetDocsFails(k)
    \/ \E k \in Passes : Commit(k)
    \/ \E k \in Passes : CommitFails(k)
    \/ \E c \in Clients : Render(c)

SpecFailures ==
    /\ InitShared
    /\ [][NextFailures]_vars
    /\ WF_vars(\E k \in Passes : GetDocsFails(k) \/ GetDocs(k))
    /\ WF_vars(\E k \in Passes : CommitFails(k) \/ Commit(k))

\* ================================================================ claims
\* The interest documents of a set as dated amounts with multiplicities.
Content(docs) ==
    {<< d.date, d.amount,
        Cardinality({e \in docs : e.date = d.date /\ e.amount = d.amount}) >>
        : d \in docs}

\* The accrual set a regeneration from scratch yields for the loan's
\* current settings and transactions.
CanonicalContent ==
    Content(BatchSets(0, GeneratedAccruals(settings, OrderByDate(store), today)))

\* The step in which pass k's batch.commit() succeeds.
Commits(k) == pass[k].pc = "commit" /\ pass'[k].pc = "done"

StaleIds == {Id(-1, n) : n \in 1 .. 3}

\* C1. Convergence: whatever interest documents are stored (stale,
\* duplicated), when a pass that was given the current settings and
\* transactions commits, with nothing else written meanwhile, the store
\* holds exactly the canonical accrual set of those settings and
\* transactions.
C1_Convergence ==
    [][\A k \in Passes :
          (Commits(k) /\ ~pass[k].raced)
              => Content(InterestDocs(store')) = CanonicalContent]_vars

\* A pass has replaced stale and duplicated interest documents by accruals.
C1_Witness ==
    \E k \in Passes :
        /\ pass[k].pc = "done" /\ ~pass[k].raced
        /\ StaleIds \subseteq pass[k].deletes
        /\ pass[k].sets # {}
        /\ InterestDocs(store) = pass[k].sets

\* The amount a transaction adds to the balance.
Signed(t) == IF t.type = "payment" THEN 0 - t.amount ELSE t.amount

RECURSIVE SumSigned(_)
SumSigned(docs) ==
    IF docs = {} THEN 0
    ELSE LET d == CHOOSE x \in docs : TRUE
         IN  Signed(d) + SumSigned(docs \ {d})

\* The initial amount and the non-interest transactions pass k was given,
\* as far as they are dated strictly before `start`.
PrincipalBefore(k, start) ==
    (IF Get(pass[k].settings.initialLoanDate) < start
     THEN Get(pass[k].settings.initialLoanAmount) ELSE 0)
    + SumSigned({[i |-> i, type |-> pass[k].trans[i].type,
                  amount |-> pass[k].trans[i].amount]
                    : i \in {j \in 1 .. Len(pass[k].trans) :
                                pass[k].trans[j].date < start}})

\* The accruals pass k generated for the months before `start`.
AccruedBefore(k, start) ==
    SumSigned({d \in pass[k].sets : d.date < start})

\* C2 as claimed: every accrual generated for a month M is
\* B * (rate / 100 / 12), B being the initial amount and the non-interest
\* transactions dated strictly before the first day of M, interest accrued
\* for earlier months left out.
C2_NonInterestBasis ==
    \A k \in Passes : \A d \in pass[k].sets :
        d.amount = InterestAmount(PrincipalBefore(k, FirstDay(MonthOf(d.date))),
                                  Get(pass[k].settings.interestRate))

\* C2 as amended: B also holds the accruals the same pass generated for the
\* months before M (interest compounds monthly).
C2_CompoundBasis ==
    \A k \in Passes : \A d \in pass[k].sets :
        d.amount = InterestAmount(PrincipalBefore(k, FirstDay(MonthOf(d.date)))
                                    + AccruedBefore(k, FirstDay(MonthOf(d.date))),
                                  Get(pass[k].settings.interestRate))

\* A pass generated accruals for three months, with payments in between.
C2_Witness ==
    \E k \in Passes :
        /\ pass[k].pc = "done"
        /\ Cardinality(pass[k].sets) >= 3
        /\ Len(pass[k].trans) >= 2

\* C3 as claimed: a handler that saved the settings, or added, updated or
\* deleted a transaction, starts a reconciliation pass (the loan being
\* configured and no pass running).
C3_WriteStartsPass ==
    [][(/\ settings' # settings \/ UserDocs(store') # UserDocs(store)
        /\ settings'.initialLoanDate # Null
        /\ settings'.interestRate # Null
        /\ \A k \in Passes : pass[k].pc = "idle")
          => \E k \in Passes : pass'[k].pc = "getDocs"]_vars

\* C4 as claimed: once the overlapping passes of two clients have both
\* committed, the store holds the canonical accruals, one per month.
C4_LastCommitWins ==
    (/\ \A k \in Passes : pass[k].pc \in {"idle", "done"}
     /\ \E j, k \in Passes : /\ pass[j].pc = "done" /\ pass[k].pc = "done"
                             /\ pass[j].client # pass[k].client
                             /\ pass[k].raced)
        => /\ \A d, e \in InterestDocs(store) : d.date = e.date => d = e
           /\ Content(InterestDocs(store)) = CanonicalContent

\* C5 as claimed: a client never has two passes in flight.
C5_OnePassInFlight ==
    \A j, k \in Passes :
        (j # k /\ InFlight(pass[j]) /\ InFlight(pass[k]))
            => pass[j].client # pass[k].client

\* Pass k is about to commit right after a pass with the same arguments
\* committed, nothing having been written in between.
SecondInSuccession(k) ==
    /\ pass[k].pc = "commit" /\ ~pass[k].raced
    /\ \E j \in Passes \ {k} :
          /\ pass[j].pc = "done" /\ ~pass[j].raced
          /\ pass[j].settings = pass[k].settings
          /\ pass[j].trans = pass[k].trans
          /\ InterestDocs(store) = pass[j].sets

C7_NoAccrualForCurrentMonth ==
    \A k \in Passes : \A d \in pass[k].sets :
        MonthOf(d.date) # MonthOf(DayOfInstant(today))

\* The months that began on or after `date` and ended before the instant `now`.
ElapsedMonthsSince(date, now) ==
    {m \in 0 .. MaxMonths + 1 :
        FirstDay(m) >= date /\ Midnight(FirstDay(m + 1)) <= now}

\* C8 as claimed: positive amount and rate, no transactions, exactly one
\* fully elapsed month since the initial loan date: the pass inserts exactly
\* one accrual, of initialLoanAmount * rate / 100 / 12, dated on the last
\* day of that month.
C8_OneElapsedMonth ==
    \A k \in Passes :
        LET s == pass[k].settings
            elapsed == ElapsedMonthsSince(Get(s.initialLoanDate), today)
        IN  (/\ pass[k].pc \in {"commit", "done"}
             /\ s.initialLoanAmount # Null
             /\ Get(s.initialLoanAmount) > 0 /\ Get(s.interestRate) > 0
             /\ pass[k].trans = << >>
             /\ Cardinality(elapsed) = 1)
                => \E m \in elapsed :
                      Content(pass[k].sets) =
                          {<< LastDay(m),
                              InterestAmount(Get(s.initialLoanAmount),
                                             Get(s.interestRate)), 1 >>}

\* The screen's loan has a positive initial amount and an initial date.
LoanConfigured ==
    /\ loanData # Null
    /\ Get(loanData).initialLoanAmount # Null
    /\ Get(Get(loanData).initialLoanAmount) > 0
    /\ Get(loanData).initialLoanDate # Null

\* The signed sum of the delivered transactions dated on or before D.
LedgerSumUpTo(D) ==
    SumSigned({[i |-> i, type |-> transactions[i].type,
                amount |-> transactions[i].amount]
                  : i \in {j \in 1 .. Len(transactions) :
                              transactions[j].date <= D}})

\* The last entry of date D in the displayed ledger.
LastOfDate(D) ==
    LET rows == ledger.transactionsForDisplay
        last == CHOOSE i \in 1 .. Len(rows) :
                    /\ rows[i].date = D
                    /\ \A j \in 1 .. Len(rows) : rows[j].date = D => j <= i
    IN  rows[last]

LedgerDates ==
    {ledger.transactionsForDisplay[i].date
        : i \in 1 .. Len(ledger.transactionsForDisplay)}

LatestDate == CHOOSE D \in LedgerDates : \A E \in LedgerDates : E <= D

\* C9 as claimed: for a configured loan the running balance of the last
\* ledger entry of a date is initialLoanAmount plus the increases and
\* interest minus the payments dated on or before that date, and the final
\* balance is that value over all transactions.
C9_RunningBalance ==
    LoanConfigured =>
        /\ \A D \in LedgerDates :
              LastOfDate(D).runningBalance =
                  Get(Get(loanData).initialLoanAmount) + LedgerSumUpTo(D)
        /\ ledger.currentRunningBalance =
              Get(Get(loanData).initialLoanAmount) + LedgerSumUpTo(LatestDate)

\* C9 corrected: initialLoanAmount is part of the running balance only from
\* the initial loan date on; the last entry of an earlier date carries just
\* the signed sum of the transactions dated on or before it. The final
\* balance is initialLoanAmount plus the signed sum of all transactions.
C9_RunningBalanceFromInitialDate ==
    LoanConfigured =>
        /\ \A D \in LedgerDates :
              LastOfDate(D).runningBalance =
                  (IF Get(Get(loanData).initialLoanDate) <= D
                   THEN Get(Get(loanData).initialLoanAmount) ELSE 0)
                  + LedgerSumUpTo(D)
        /\ ledger.currentRunningBalance =
              Get(Get(loanData).initialLoanAmount) + LedgerSumUpTo(LatestDate)

C9_Witness ==
    /\ LoanConfigured
    /\ Len(ledger.transactionsForDisplay) = Len(transactions) + 1
    /\ \E i \in 1 .. Len(transactions) :
          /\ transactions[i].type = "payment"
          /\ transactions[i].date < Get(Get(loanData).initialLoanDate)
    /\ \E i \in 1 .. Len(transactions) : transactions[i].type = "interest"
    /\ \E i \in 1 .. Len(transactions) : transactions[i].type = "loanIncrease"

\* The input of the fold: the initial entry, then the delivered transactions.
FoldInput ==
    << [id |-> InitialId, date |-> Get(Get(loanData).initialLoanDate),
        type |-> "initial",
        amount |-> Get(Get(loanData).initialLoanAmount)] >>
    \o [i \in 1 .. Len(transactions) |->
           [id |-> transactions[i].id, date |-> transactions[i].date,
            type |-> transactions[i].type, amount |-> transactions[i].amount]]

\* Where the i-th input entry stands in an ascending order that keeps the
\* input order of equal dates.
FoldPosition(i) ==
    1 + Cardinality({j \in 1 .. Len(FoldInput) :
                        FoldInput[j].date < FoldInput[i].date})
      + Cardinality({j \in 1 .. i - 1 :
                        FoldInput[j].date = FoldInput[i].date})

\* C10: the fold takes the initial entry and the transactions in ascending
\* date order, equal dates in input order (initial entry first, then the
\* order of the store's documents), each entry's running balance being the
\* previous one plus its signed amount; 1000 with an increase of 100 dated
\* before a payment of 200 gives 1000, 1100, 900.
C10_StableAscendingFold ==
    LoanConfigured =>
        LET calculated == ledger.calculatedTransactions
        IN  /\ Len(calculated) = Len(FoldInput)
            /\ \A i \in 1 .. Len(FoldInput) :
                  LET p == FoldPosition(i)
                  IN  /\ calculated[p].id = FoldInput[i].id
                      /\ calculated[p].runningBalance =
                            (IF p = 1 THEN 0
                             ELSE calculated[p - 1].runningBalance)
                            + Signed(FoldInput[i])
            /\ (/\ Get(Get(loanData).initialLoanAmount) = 1000 * Dollar
                /\ Len(transactions) = 2
                /\ Get(Get(loanData).initialLoanDate) < transactions[1].date
                /\ transactions[1].date < transactions[2].date
                /\ transactions[1].type = "loanIncrease"
                /\ transactions[1].amount = 100 * Dollar
                /\ transactions[2].type = "payment"
                /\ transactions[2].amount = 200 * Dollar)
                  => [i \in 1 .. 3 |-> calculated[i].runningBalance] =
                        << 1000 * Dollar, 1100 * Dollar, 900 * Dollar >>

C10_Witness ==
    /\ LoanConfigured
    /\ Len(ledger.calculatedTransactions) = 4
    /\ transactions[1].date = Get(Get(loanData).initialLoanDate)
    /\ transactions[2].date = transactions[3].date
    /\ transactions[2].type = "payment"
    /\ transactions[3].type = "loanIncrease"
    /\ ledger.calculatedTransactions[1].id = InitialId
    /\ [i \in 1 .. 4 |-> ledger.calculatedTransactions[i].runningBalance] =
          << 1000 * Dollar, 1100 * Dollar, 900 * Dollar, 1000 * Dollar >>

\* The entries of a sequence, as a set.
Entries(rows) == {rows[i] : i \in 1 .. Len(rows)}

\* The positions of the payments in the fold.
PaymentPositions ==
    {i \in 1 .. Len(ledger.calculatedTransactions) :
        ledger.calculatedTransactions[i].type = "payment"}

\* C11: the sort direction changes only the presentation order. The
\* displayed entries are the folded entries, running balances included, in
\* ascending or descending date order; lastPayment is the last payment in
\* fold order; and a toggle of the sort leaves the fold, the running
\* balance of every entry, the final balance and lastPayment as they were.
C11_SortOnlyPresentation ==
    /\ [](/\ Len(ledger.transactionsForDisplay) =
                 Len(ledger.calculatedTransactions)
          /\ Entries(ledger.transactionsForDisplay) =
                 Entries(ledger.calculatedTransactions)
          /\ \A i, j \in 1 .. Len(ledger.transactionsForDisplay) :
                i < j =>
                    IF sortDirection = "desc"
                    THEN ledger.transactionsForDisplay[i].date >=
                             ledger.transactionsForDisplay[j].date
                    ELSE ledger.transactionsForDisplay[i].date <=
                             ledger.transactionsForDisplay[j].date
          /\ ledger.lastPayment =
                 IF PaymentPositions = {} THEN Null
                 ELSE LET last == CHOOSE i \in PaymentPositions :
                                      \A j \in PaymentPositions : j <= i
                      IN  Some([date |-> ledger.calculatedTransactions[last].date,
                                amount |->
                                    ledger.calculatedTransactions[last].amount]))
    /\ [][sortDirection' # sortDirection =>
             /\ ledger'.calculatedTransactions = ledger.calculatedTransactions
             /\ ledger'.currentRunningBalance = ledger.currentRunningBalance
             /\ ledger'.lastPayment = ledger.lastPayment
             /\ Entries(ledger'.transactionsForDisplay) =
                    Entries(ledger.transactionsForDisplay)]_vars

\* The sort was toggled to ascending on a ledger with two payments of
\* different dates.
C11_Witness ==
    /\ sortDirection = "asc"
    /\ LoanConfigured
    /\ Cardinality(PaymentPositions) = 2
    /\ \E i, j \in PaymentPositions :
          ledger.calculatedTransactions[i].date <
              ledger.calculatedTransactions[j].date
    /\ ledger.transactionsForDisplay = ledger.calculatedTransactions

\* The step in which pass k's batch.commit() is rejected.
CommitRejected(k) == pass[k].pc = "commit" /\ pass'[k].pc = "failed"

\* C12: the deletes and the inserts of a pass become visible together or
\* not at all. The store changes only in the step of a commit, which removes
\* every document the pass queued for deletion and adds every accrual it
\* queued; a rejected commit leaves the store as it was; and no accrual of
\* a pass is stored before its commit or after its failure.
C12_AtomicBatch ==
    /\ [](\A k \in Passes :
             pass[k].pc # "done" => \A d \in store : d.id.pass # k)
    /\ [][/\ store' # store =>
                \E k \in Passes :
                    /\ Commits(k)
                    /\ pass[k].sets \subseteq store'
                    /\ \A d \in store' : d.id \notin pass[k].deletes
                    /\ \A d \in store :
                          d.id \notin pass[k].deletes => d \in store'
                    /\ store' \subseteq store \cup pass[k].sets
          /\ \A k \in Passes : CommitRejected(k) => store' = store]_vars

\* One pass has committed its deletes and inserts, another one's commit was
\* rejected and nothing of it is stored.
C12_Witness ==
    \E j, k \in Passes :
        /\ pass[k].pc = "done"
        /\ pass[k].deletes # {} /\ pass[k].sets # {}
        /\ pass[j].pc = "failed"
        /\ pass[j].deletes # {} /\ pass[j].sets # {}
        /\ \A d \in store : d.id.pass # j

\* The balance the loop of pass k finds before the month mi: the initial
\* amount, the non-interest transactions and the accruals of the same pass
\* dated before the month's first day.
BalanceOfPassBefore(k, mi) ==
    PrincipalBefore(k, FirstDay(mi)) + AccruedBefore(k, FirstDay(mi))

\* C13: an accrual is generated for a month only if the balance before the
\* month is > 0, the rate is > 0 and the computed interest is not below half
\* a cent; a month whose computed interest is below half a cent gets none.
C13_Materiality ==
    \A k \in Passes :
        (pass[k].pc \in {"commit", "done"}
            /\ pass[k].settings.initialLoanAmount # Null) =>
            /\ \A d \in pass[k].sets :
                  /\ BalanceOfPassBefore(k, MonthOf(d.date)) > 0
                  /\ Get(pass[k].settings.interestRate) > 0
                  /\ InterestAmount(BalanceOfPassBefore(k, MonthOf(d.date)),
                                    Get(pass[k].settings.interestRate))
                         >= HalfCent
                  /\ d.amount >= HalfCent
            /\ \A mi \in 0 .. MaxMonths + 1 :
                  InterestAmount(BalanceOfPassBefore(k, mi),
                                 Get(pass[k].settings.interestRate)) < HalfCent
                      => \A d \in pass[k].sets : MonthOf(d.date) # mi

\* A pass went over an elapsed month of a loan of 40 cents at 12%, whose
\* monthly interest is 0.004, and generated nothing.
C13_Witness ==
    \E k \in Passes :
        /\ pass[k].pc = "done"
        /\ pass[k].settings.initialLoanAmount = Some(40 * Cent)
        /\ pass[k].settings.interestRate = Some(12)
        /\ pass[k].trans = << >>
        /\ ElapsedMonthsSince(Get(pass[k].settings.initialLoanDate), today) # {}
        /\ pass[k].sets = {}

ProjectionBalance == ledger.currentRunningBalance
ProjectionRate == Get(Get(loanData).interestRate)

\* C15 as claimed: a schedule never has more than 600 rows, and one that
\* ends with the balance still above 0 (payoff not reached) has exactly 600.
C15_CapAt600 ==
    /\ Len(amortizationSchedule) <= MonthCap
    /\ (/\ amortizationSchedule # << >>
        /\ amortizationSchedule[Len(amortizationSchedule)].endingBalance > 0)
          => Len(amortizationSchedule) = MonthCap

\* The step of handleCalculateProjections, when it changes anything.
Calculates ==
    /\ projectionPayment' = projectionPayment
    /\ \/ amortizationSchedule' # amortizationSchedule
       \/ notification' # notification

\* C16: a payment that is no number or not > 0 is rejected as invalid and
\* no schedule is produced; a payment <= balance * monthlyRate is rejected
\* as too small and the schedule is empty; a schedule with rows is produced
\* only for a payment > 0 and > balance * monthlyRate.
C16_ProjectionValidation ==
    [][Calculates =>
         LET valid == projectionPayment # Null /\ Get(projectionPayment) > 0
             enough == /\ valid
                       /\ Get(projectionPayment) >
                              InterestAmount(ProjectionBalance, ProjectionRate)
         IN  /\ ~valid => /\ notification' = "invalidPayment"
                          /\ amortizationSchedule' = amortizationSchedule
             /\ (valid /\ ~enough) => /\ notification' = "paymentTooSmall"
                                      /\ amortizationSchedule' = << >>
             /\ amortizationSchedule' # << >> =>
                   \/ enough
                   \/ amortizationSchedule' = amortizationSchedule]_vars

\* Balance 1000 at 12% with a payment of 10, which equals the month's
\* interest: rejected as too small, no schedule.
C16_Witness ==
    /\ ProjectionBalance = 1000 * Dollar
    /\ ProjectionRate = 12
    /\ projectionPayment = Some(10 * Dollar)
    /\ notification = "paymentTooSmall"
    /\ amortizationSchedule = << >>

BalanceBeforeRow(schedule, k) ==
    IF k = 1 THEN ProjectionBalance ELSE schedule[k - 1].endingBalance

\* C18: in the schedule a calculation produces, row k has month k, the
\* payment entered, interest_k = b_(k-1) * monthlyRate, principal_k =
\* payment - interest_k and endingBalance_k = max(b_k, 0) with
\* b_k = b_(k-1) - principal_k and b_0 the ledger's balance; every row but
\* the last has b_k > 0, and the last has b_k <= 0 unless the cap on the
\* months ended the loop.
C18_RowRecurrence ==
    [][(Calculates /\ amortizationSchedule' # amortizationSchedule) =>
         LET schedule == amortizationSchedule'
             b(k) == BalanceBeforeRow(schedule, k) - schedule[k].principal
         IN  /\ \A k \in 1 .. Len(schedule) :
                   /\ schedule[k].month = k
                   /\ schedule[k].payment = Get(projectionPayment)
                   /\ schedule[k].interest =
                          InterestAmount(BalanceBeforeRow(schedule, k),
                                         ProjectionRate)
                   /\ schedule[k].principal =
                          schedule[k].payment - schedule[k].interest
                   /\ schedule[k].endingBalance =
                          (IF b(k) > 0 THEN b(k) ELSE 0)
                   /\ k < Len(schedule) => b(k) > 0
             /\ schedule # << >> =>
                   \/ b(Len(schedule)) <= 0
                   \/ Len(schedule) >= MonthCap - 1]_vars

\* A schedule of several rows whose last payment exceeds what was owed, so
\* that the last ending balance was clamped to 0.
C18_Witness ==
    /\ Len(amortizationSchedule) >= 3
    /\ LET n == Len(amortizationSchedule)
       IN  /\ amortizationSchedule[n].principal >
                  amortizationSchedule[n - 1].endingBalance
           /\ amortizationSchedule[n].endingBalance = 0

\* The payments the screen holds, in whole cents.
PaidInCents ==
    InCents(0 - SumSigned({[i |-> i, type |-> transactions[i].type,
                            amount |-> transactions[i].amount]
                              : i \in {j \in 1 .. Len(transactions) :
                                          transactions[j].type = "payment"}}))

\* C19: percentagePaidOff (in hundredths of a percent) is 0 when
\* initialLoanAmount is absent or <= 0; otherwise it is the sum of the
\* payment amounts over initialLoanAmount, times 100, clamped to [0, 100],
\* whatever interest and loanIncrease transactions there are. 1000 with one
\* payment of 200 gives balance 800 and 20 percent.
C19_PercentagePaidOff ==
    /\ 0 <= percentagePaidOff /\ percentagePaidOff <= 100 * Percent
    /\ IF \/ loanData = Null
          \/ Get(loanData).initialLoanAmount = Null
          \/ Get(Get(loanData).initialLoanAmount) <= 0
       THEN percentagePaidOff = 0
       ELSE LET initial == InCents(Get(Get(loanData).initialLoanAmount))
            IN  IF PaidInCents >= initial
                THEN percentagePaidOff = 100 * Percent
                ELSE /\ percentagePaidOff * initial <=
                            PaidInCents * 100 * Percent
                     /\ PaidInCents * 100 * Percent <
                            (percentagePaidOff + 1) * initial
    /\ (/\ loanData # Null
        /\ Get(loanData).initialLoanAmount = Some(1000 * Dollar)
        /\ Get(loanData).initialLoanDate # Null
        /\ Len(transactions) = 1
        /\ transactions[1].type = "payment"
        /\ transactions[1].amount = 200 * Dollar)
          => /\ ledger.currentRunningBalance = 800 * Dollar
             /\ percentagePaidOff = 20 * Percent

\* 1000 with a payment of 200, an increase and an interest entry: 20 percent.
C19_Witness ==
    /\ LoanConfigured
    /\ Get(loanData).initialLoanAmount = Some(1000 * Dollar)
    /\ Len(transactions) = 3
    /\ \E i, j, k \in 1 .. 3 :
          /\ transactions[i].type = "payment"
          /\ transactions[i].amount = 200 * Dollar
          /\ transactions[j].type = "loanIncrease"
          /\ transactions[k].type = "interest"
    /\ percentagePaidOff = 20 * Percent

\* C20: every stored transaction has an amount > 0, whatever was submitted
\* (amounts that are no number, 0 or negative, or no date, are rejected
\* before any write) and whatever the reconciler inserted.
C20_StoredAmountsPositive ==
    \A d \in store : d.amount > 0

\* The store holds transactions the member submitted and accruals a pass
\* inserted.
C20_Witness ==
    /\ nDocs = MaxTx
    /\ Cardinality(UserDocs(store)) = MaxTx
    /\ \E d \in UserDocs(store) : d.type = "loanIncrease"
    /\ \E k \in Passes :
          /\ pass[k].pc = "done"
          /\ pass[k].sets # {}
          /\ pass[k].sets \subseteq store

\* C21: after any saves the stored settings hold a numeric
\* initialLoanAmount >= 0 and a numeric interestRate >= 0 (a save with a
\* non-numeric or negative amount or rate, or no date, is rejected).
C21_SettingsValid ==
    settings # NoSettings =>
        /\ settings.initialLoanAmount \notin {Null, StoredNaN}
        /\ Get(settings.initialLoanAmount) >= 0
        /\ settings.interestRate \notin {Null, StoredNaN}
        /\ Get(settings.interestRate) >= 0

\* C22: a stored transaction keeps the authorId it was created with: no
\* step, an update by another member included, changes the authorId of a
\* stored transaction.
C22_AuthorKept ==
    [][\A d \in store : \A e \in store' :
          e.id = d.id => e.authorId = d.authorId]_vars

\* C23: with no initialLoanAmount or no initialLoanDate in the settings the
\* ledger is empty, its balance 0 and it has no lastPayment, whatever the
\* transactions; with both present it holds exactly one entry of type
\* 'initial'.
C23_LedgerGuard ==
    loanData # Null =>
        LET s == Get(loanData)
            rows == ledger.transactionsForDisplay
        IN  /\ (s.initialLoanAmount = Null \/ s.initialLoanDate = Null) =>
                  /\ rows = << >>
                  /\ ledger.currentRunningBalance = 0
                  /\ ledger.lastPayment = Null
            /\ (s.initialLoanAmount # Null /\ s.initialLoanDate # Null) =>
                  Cardinality({i \in 1 .. Len(rows) : rows[i].type = "initial"}) = 1

\* C24: the month walk of a pass visits the months from the month of
\* initialLoanDate through the last month the loop condition lets in, each
\* once and in order, whatever the day-of-month of initialLoanDate.
C24_MonthWalk ==
    \A k \in Passes :
        pass[k].pc \in {"commit", "done"} =>
            LET first == MonthOf(Get(pass[k].settings.initialLoanDate))
                walk == MonthWalk(Get(pass[k].settings.initialLoanDate), today)
            IN  /\ \A i \in 1 .. Len(walk) : walk[i] = first + i - 1
                /\ ~LoopContinues(FirstDay(first + Len(walk)), today)

\* C25: whenever the in-progress flag of a member is set it is cleared
\* later, whether the pass succeeds, its commit fails or its read fails.
C25_FlagCleared ==
    \A c \in Clients : isCalculatingInterest[c] ~> ~isCalculatingInterest[c]

\* C26: submitting an edit creates no transaction: a step that is no addDoc
\* brings no id into the store that was not in it, even when the edited
\* transaction was deleted after the form was loaded.
C26_UpdateCreatesNothing ==
    [][nDocs' = nDocs =>
          {d.id : d \in store'} \subseteq {d.id : d \in store}]_vars

\* C27: saving the settings with the date field left as loaded stores the
\* calendar date that was stored before, in every time zone: the one date
\* ever typed or stored being 15 January 2024, the stored initialLoanDate is
\* that date after any number of saves.
C27_DateRoundTrip ==
    settings.initialLoanDate \in {Null, Some(Day(0, 15))}

\* C28: a loan with initialLoanAmount 0 and an initialLoanDate is
\* configured: setup is complete, the ledger holds the initial entry and
\* its balance is the increases and interest minus the payments delivered.
C28_ZeroAmountConfigured ==
    (/\ loanData # Null
     /\ Get(loanData).initialLoanAmount = Some(0)
     /\ Get(loanData).initialLoanDate # Null
     /\ Get(loanData).interestRate # Null) =>
        LET rows == ledger.transactionsForDisplay
        IN  /\ IsSetupComplete(loanData)
            /\ \E i \in 1 .. Len(rows) : rows[i].type = "initial"
            /\ ledger.currentRunningBalance =
                   SumSigned({[i |-> i, type |-> transactions[i].type,
                               amount |-> transactions[i].amount]
                                 : i \in 1 .. Len(transactions)})

\* C29: in every row of the schedule a calculation produces, the principal
\* is no more than the balance owed at the start of that month, the last
\* row included.
C29_PrincipalWithinBalance ==
    [][(Calculates /\ amortizationSchedule' # amortizationSchedule) =>
         \A k \in 1 .. Len(amortizationSchedule') :
             amortizationSchedule'[k].principal <=
                 BalanceBeforeRow(amortizationSchedule', k)]_vars

\* C30: after a rejected projection request, the payment being invalid or
\* too small, no schedule is displayed: none computed earlier remains.
C30_RejectedClearsSchedule ==
    [][Calculates =>
         LET valid == projectionPayment # Null /\ Get(projectionPayment) > 0
             enough == /\ valid
                       /\ Get(projectionPayment) >
                              InterestAmount(ProjectionBalance, ProjectionRate)
         IN  ~enough => amortizationSchedule' = << >>]_vars

====
